---------------------------- MODULE Spec2Model ----------------------------
(***************************************************************************)
(* A model of click2label.py: the ClickLabel session (result table, image  *)
(* sequence, current grid of SingleImage tiles), the persisted CSV file    *)
(* and the operations on them: construction, labelling_grid and onclick.   *)
(*                                                                         *)
(* Paths are naturals standing for the lexicographic rank of the path      *)
(* string.  A time string "YYYY-MM-DD HH:MM:SS.ffffff" is the sequence of  *)
(* its three pieces "YYYY-MM-DD H" / "H:MM:SS" / ".ffffff", the last two   *)
(* of 7 characters each, so that the slice [:-7] of the source removes     *)
(* exactly the last piece.  The ".ffffff" piece is absent when the         *)
(* microsecond of the clock is zero (datetime.__str__).                    *)
(*                                                                         *)
(* Environment taken as given: read_csv does not take the text "None" for  *)
(* a missing value (pandas before 2.0, the pandas of the source's time),   *)
(* the two configured colours are resolvable, the labels are the same in   *)
(* every session that shares a result file, differ from "None" and are not *)
(* texts that read_csv takes for a number or a missing value, the result   *)
(* file is written by this program only, and sessions run one after the    *)
(* other.  The directory may differ from one session to the next.          *)
(*                                                                         *)
(* Spec is the life of the sessions over one result file.  SpecLoad is the *)
(* constructor alone, called with any arguments over any file, also files  *)
(* this program did not write.                                             *)
(***************************************************************************)
EXTENDS Integers, Sequences, FiniteSets

\* ----------------------------------------------------------------- bounds
MaxImages == 2
MaxTicks == 1

\* ------------------------------------------------------ program constants
\* the 7 characters "H:MM:SS" cut by [:-7] span ten hours, in seconds
TenHours == 36000

Paths == 1..MaxImages
RowOptions == {-1, 0, 1}
ColumnOptions == {-1, 1, 2}
LabelOptions == {<<"A", "B">>, <<"A", "A">>}
StartTime == TenHours - 1
Buttons == {1, 2, 3}
Usecs == {0, 1}

VARIABLES
    label_options,  \* self.label_options
    rows,           \* self.rows
    columns,        \* self.columns
    csv,            \* the file at self.result_path
    result,         \* self.result, rows in index order
    image_paths,    \* self.image_paths
    images,         \* self.images
    now,            \* the clock, in seconds
    err,            \* the exception the last operation raised
    session,        \* whether the constructor has returned a ClickLabel
    hist            \* history: whether the session found no file, the paths
                    \* it flushed, and what construction or the last
                    \* labelling_grid left in result, csv and image_paths

vars == <<label_options, rows, columns, csv, result, image_paths, images,
          now, err, session, hist>>

\* ---------------------------------------------------------------- helpers
Min(a, b) == IF a < b THEN a ELSE b
Max(a, b) == IF a < b THEN b ELSE a
Range(s) == {s[i] : i \in DOMAIN s}

\* Python's s[k:] and s[:k], negative k counted from the end
PyIndex(n, k) == IF k < 0 THEN Max(0, n + k) ELSE Min(k, n)
SliceFrom(s, k) == SubSeq(s, PyIndex(Len(s), k) + 1, Len(s))
SliceTo(s, k) == SubSeq(s, 1, PyIndex(Len(s), k))

\* np.sort of a list of distinct paths
RECURSIVE NpSort(_)
NpSort(S) ==
    IF S = {} THEN <<>>
    ELSE LET m == CHOOSE x \in S : \A y \in S : x <= y
         IN <<m>> \o NpSort(S \ {m})

\* ------------------------------------------------------------- timestamps
\* the 'None' timestamp of update's default argument
TsNone == <<>>

\* str(dt.now())
StrNow(t, usec) ==
    <<t \div TenHours, t % TenHours>> \o (IF usec = 0 THEN <<>> ELSE <<usec>>)

\* str(dt.now())[:-7]
Stamp(t, usec) == SubSeq(StrNow(t, usec), 1, Len(StrNow(t, usec)) - 1)

\* string comparison of two time strings
RECURSIVE SeqLess(_, _)
SeqLess(a, b) ==
    IF a = <<>> THEN b # <<>>
    ELSE IF b = <<>> THEN FALSE
    ELSE IF a[1] # b[1] THEN a[1] < b[1]
    ELSE SeqLess(Tail(a), Tail(b))

\* "None" sorts after every string that starts with a digit
TsLess(a, b) ==
    IF a = TsNone THEN FALSE
    ELSE IF b = TsNone THEN TRUE
    ELSE SeqLess(a, b)

\* ------------------------------------------------------------ the table
Keys(table) == {table[i].filename : i \in DOMAIN table}

Loc(table, path) ==
    table[CHOOSE i \in DOMAIN table : table[i].filename = path]

\* faulty variant: an existing row is kept, only new paths are added
SetLocKeepFirst(table, path, label, timestamp) ==
    IF path \in Keys(table) THEN table
    ELSE Append(table, [filename |-> path, label |-> label, timestamp |-> timestamp])

\* self.result.loc[path] = [label, timestamp]
SetLoc(table, path, label, timestamp) ==
    LET row == [filename |-> path, label |-> label, timestamp |-> timestamp]
    IN IF path \in Keys(table)
       THEN [i \in DOMAIN table |->
                IF table[i].filename = path THEN row ELSE table[i]]
       ELSE Append(table, row)

\* ------------------------------------------------------------ the CSV file
NoFile == [exists |-> FALSE, header |-> <<>>, rows |-> <<>>]

\* the texts read_csv takes for a missing value
NaStrings == {"", "#N/A", "#N/A N/A", "#NA", "-1.#IND", "-1.#QNAN", "-NaN",
              "-nan", "1.#IND", "1.#QNAN", "<NA>", "N/A", "NA", "NULL", "NaN",
              "n/a", "nan", "null"}
NaN == "NaN"

\* faulty variant: the text "None" is taken for a missing value as well
ParseFieldNoneMissing(text) ==
    IF text \in NaStrings \cup {"None"} THEN NaN ELSE text

ParseField(text) == IF text \in NaStrings THEN NaN ELSE text
FormatField(value) == IF value = NaN THEN "" ELSE value

\* DataFrame.to_csv(result_path)
ToCsv(table) ==
    [exists |-> TRUE,
     header |-> <<"filename", "label", "timestamp">>,
     rows |-> [i \in DOMAIN table |->
                 [filename |-> table[i].filename,
                  label |-> FormatField(table[i].label),
                  timestamp |-> table[i].timestamp]]]

\* pd.read_csv(result_path, index_col='filename')
ReadCsv(file) ==
    [i \in DOMAIN file.rows |->
        [filename |-> file.rows[i].filename,
         label |-> ParseField(file.rows[i].label),
         timestamp |-> file.rows[i].timestamp]]

Done(row) == row.label # "None"

\* faulty variant: the rows are ordered by timestamp alone
KeyLessTimestampOnly(a, b) == TsLess(a.timestamp, b.timestamp)

KeyLess(a, b) ==
    \/ ~Done(a) /\ Done(b)
    \/ Done(a) = Done(b) /\ TsLess(a.timestamp, b.timestamp)

\* put row after every row of the sorted table whose key is not greater
InsertRow(sorted, row) ==
    LET later == {i \in DOMAIN sorted : KeyLess(row, sorted[i])}
        k == IF later = {} THEN Len(sorted) + 1
             ELSE CHOOSE i \in later : \A j \in later : i <= j
    IN SubSeq(sorted, 1, k - 1) \o <<row>> \o SubSeq(sorted, k, Len(sorted))

\* df.sort_values(['done', 'timestamp']), a stable sort
RECURSIVE SortValues(_)
SortValues(table) ==
    IF table = <<>> THEN <<>>
    ELSE InsertRow(SortValues(SubSeq(table, 1, Len(table) - 1)),
                   table[Len(table)])

\* faulty variant: a file that cannot be read is taken for no file
result_tableForgiving(file) ==
    IF file.exists
    THEN IF {"filename", "label", "timestamp"} \subseteq Range(file.header)
         THEN [err |-> "none", table |-> SortValues(ReadCsv(file))]
         ELSE [err |-> "none", table |-> <<>>]
    ELSE [err |-> "none", table |-> <<>>]

result_table(file) ==
    IF file.exists
    THEN IF {"filename", "label", "timestamp"} \subseteq Range(file.header)
         THEN [err |-> "none", table |-> SortValues(ReadCsv(file))]
         ELSE [err |-> "ValueError", table |-> <<>>]
    ELSE [err |-> "none", table |-> <<>>]

\* faulty variant: the entries that have a record are listed as well
get_image_pathsUnfiltered(listing, table) ==
    LET labelled == [i \in DOMAIN table |-> table[i].filename]
    IN NpSort(listing) \o labelled

get_image_paths(listing, table) ==
    LET labelled == [i \in DOMAIN table |-> table[i].filename]
        unlabelled == {f \in listing : f \notin Range(labelled)}
    IN NpSort(unlabelled) \o labelled

\* ---------------------------------------------------------- configuration
num == rows * columns

\* dict(zip([1, 3], label_options))
click_map == [b \in {1, 3} |-> IF b = 1 THEN label_options[1] ELSE label_options[2]]

color_options == <<"red", "blue">>

\* {label_options[0]: color_options[0], label_options[1]: color_options[1], 'None': False}
color_map ==
    [l \in {label_options[1], label_options[2], "None"} |->
        IF l = "None" THEN "False"
        ELSE IF l = label_options[2] THEN color_options[2]
        ELSE color_options[1]]

\* ------------------------------------------------------------ SingleImage
\* The axes of the figure on display are 1, 2, ... in grid order.  A click
\* event carries one of them, no axes at all (event.inaxes is None), or the
\* axes of a figure drawn earlier, which no tile of self.images holds.
NoAxes == 0
StaleAxes == -1

\* SingleImage.update(label, timestamp): the attributes are set before the
\* overlay colour is looked up; reading the image never raises
update(img, label, timestamp, nowstr) ==
    [img |-> [img EXCEPT !.label = label,
                         !.timestamp = IF timestamp = TsNone THEN nowstr
                                       ELSE timestamp],
     err |-> IF label \in DOMAIN color_map THEN "none" ELSE "KeyError"]

\* SingleImage(path, props, ax)
SingleImage(path, ax, table, nowstr) ==
    LET blank == [path |-> path, ax |-> ax, label |-> "None", timestamp |-> TsNone]
    IN IF path \in Keys(table)
       THEN update(blank, Loc(table, path).label, Loc(table, path).timestamp, nowstr)
       ELSE update(blank, "None", TsNone, nowstr)

\* ---------------------------------------------------------------- onclick
\* the label a recognised click gives a tile
ClickLabelFor(button, img) ==
    IF click_map[button] = img.label THEN "None" ELSE click_map[button]

\* the loop over self.images from tile k on; an exception ends it
RECURSIVE OnclickLoop(_, _, _, _, _)
OnclickLoop(imgs, k, button, inaxes, nowstr) ==
    IF k > Len(imgs) THEN [images |-> imgs, err |-> "none"]
    ELSE IF inaxes # imgs[k].ax THEN OnclickLoop(imgs, k + 1, button, inaxes, nowstr)
    ELSE IF button \notin DOMAIN click_map THEN [images |-> imgs, err |-> "KeyError"]
    ELSE IF ClickLabelFor(button, imgs[k]) \notin DOMAIN color_map
         THEN [images |-> imgs, err |-> "KeyError"]
    ELSE LET u == update(imgs[k], ClickLabelFor(button, imgs[k]), nowstr, nowstr)
         IN IF u.err # "none"
            THEN [images |-> [imgs EXCEPT ![k] = u.img], err |-> u.err]
            ELSE OnclickLoop([imgs EXCEPT ![k] = u.img], k + 1, button, inaxes, nowstr)

\* faulty variant: the button is looked up without the test that it is mapped
onclickUnguarded(imgs, button, inaxes, nowstr) ==
    OnclickLoop(imgs, 1, button, inaxes, nowstr)

onclick(imgs, button, inaxes, nowstr) ==
    IF button \in DOMAIN click_map
    THEN OnclickLoop(imgs, 1, button, inaxes, nowstr)
    ELSE [images |-> imgs, err |-> "none"]

\* --------------------------------------------------------- labelling_grid
\* faulty variant: only the tiles that bear a label are written to the table
RECURSIVE FlushLabelled(_, _)
FlushLabelled(table, imgs) ==
    IF imgs = <<>> THEN table
    ELSE IF imgs[1].label = "None" THEN FlushLabelled(table, Tail(imgs))
    ELSE FlushLabelled(SetLoc(table, imgs[1].path, imgs[1].label, imgs[1].timestamp),
                       Tail(imgs))

\* for i in self.images: self.result.loc[i.path] = [i.label, i.timestamp]
RECURSIVE Flush(_, _)
Flush(table, imgs) ==
    IF imgs = <<>> THEN table
    ELSE Flush(SetLoc(table, imgs[1].path, imgs[1].label, imgs[1].timestamp),
               Tail(imgs))

\* faulty variant: the two slices are joined in the order they were cut
RotateSwapped(paths, n) == SliceTo(paths, n) \o SliceFrom(paths, n)

\* np.concatenate([image_paths[num:], image_paths[:num]])
Rotate(paths, n) == SliceFrom(paths, n) \o SliceTo(paths, n)

\* the loop that fills the grid from tile k on; an exception ends it
\* (fig.add_subplot refuses a grid without rows or columns)
RECURSIVE FillGrid(_, _, _, _, _, _, _)
FillGrid(r, c, acc, page, k, table, stamps) ==
    IF k > Len(page) THEN [images |-> acc, err |-> "none"]
    ELSE IF r <= 0 \/ c <= 0 THEN [images |-> acc, err |-> "ValueError"]
    ELSE LET t == SingleImage(page[k], k, table, stamps[k])
         IN IF t.err # "none" THEN [images |-> acc, err |-> t.err]
            ELSE FillGrid(r, c, Append(acc, t.img), page, k + 1, table, stamps)

\* faulty variant: the file is saved before the tiles are written to the table
WriteBackSaveFirst(n, table, file, paths, imgs) ==
    IF Len(imgs) > 0
    THEN [result |-> Flush(table, imgs),
          csv |-> ToCsv(table),
          image_paths |-> Rotate(paths, n)]
    ELSE [result |-> table, csv |-> file, image_paths |-> paths]

\* faulty variant: the write-back is done whether or not a grid was shown
WriteBackAlways(n, table, file, paths, imgs) ==
    [result |-> Flush(table, imgs),
     csv |-> ToCsv(Flush(table, imgs)),
     image_paths |-> Rotate(paths, n)]

\* what labelling_grid writes back before it builds the grid
WriteBack(n, table, file, paths, imgs) ==
    IF Len(imgs) > 0
    THEN LET flushed == Flush(table, imgs)
         IN [result |-> flushed,
             csv |-> ToCsv(flushed),
             image_paths |-> Rotate(paths, n)]
    ELSE [result |-> table, csv |-> file, image_paths |-> paths]

\* labelling_grid() of a session with r rows and c columns
labelling_grid(r, c, table, file, paths, imgs, stamps) ==
    LET w == WriteBack(r * c, table, file, paths, imgs)
        g == FillGrid(r, c, <<>>, SliceTo(w.image_paths, r * c), 1, w.result, stamps)
    IN [result |-> w.result, csv |-> w.csv, image_paths |-> w.image_paths,
        images |-> g.images, err |-> g.err]

\* ------------------------------------------------------------------- Init
\* ClickLabel(...): the constructor, over the file and the directory it finds
ClickLabel(file, listing) ==
    LET r == result_table(file)
    IN [result |-> r.table,
        image_paths |-> get_image_paths(listing, r.table),
        images |-> <<>>,
        err |-> r.err]

Init ==
    /\ label_options \in LabelOptions
    /\ rows \in RowOptions
    /\ columns \in ColumnOptions
    /\ csv = NoFile
    /\ \E listing \in SUBSET Paths :
         LET c == ClickLabel(NoFile, listing)
         IN /\ result = c.result
            /\ image_paths = c.image_paths
            /\ images = c.images
            /\ err = c.err
    /\ now = StartTime
    /\ session = TRUE
    /\ hist = [fresh |-> TRUE, flushed |-> {},
               saved |-> <<result, csv, image_paths>>]

\* ---------------------------------------------------------------- actions
\* a later run constructs ClickLabel again, over the file the earlier runs left
Construct ==
    /\ \E listing \in SUBSET Paths :
         LET c == ClickLabel(csv, listing)
         IN /\ result' = c.result
            /\ image_paths' = c.image_paths
            /\ images' = c.images
            /\ err' = c.err
            /\ session' = (c.err = "none")
    /\ hist' = [fresh |-> ~csv.exists, flushed |-> {},
                saved |-> <<result', csv, image_paths'>>]
    /\ UNCHANGED <<label_options, rows, columns, csv, now>>

\* the paths the next grid shows
NextPage == SliceTo(WriteBack(num, result, csv, image_paths, images).image_paths, num)

LabellingGrid ==
    /\ session
    /\ \E usecs \in [DOMAIN NextPage -> Usecs] :
         LET stamps == [k \in DOMAIN usecs |-> Stamp(now, usecs[k])]
             g == labelling_grid(rows, columns, result, csv, image_paths, images, stamps)
         IN /\ result' = g.result
            /\ csv' = g.csv
            /\ image_paths' = g.image_paths
            /\ images' = g.images
            /\ err' = g.err
    /\ hist' = [hist EXCEPT
                   !.flushed = IF hist.fresh
                               THEN @ \cup {images[i].path : i \in DOMAIN images}
                               ELSE @,
                   !.saved = <<result', csv', image_paths'>>]
    /\ UNCHANGED <<label_options, rows, columns, now, session>>

\* the axes a click event can carry
EventAxes == {NoAxes, StaleAxes} \cup DOMAIN images

\* faulty variant: the handler writes the clicked tiles through to the table
OnclickWriteThrough ==
    /\ session
    /\ \E button \in Buttons, inaxes \in EventAxes, usec \in Usecs :
         LET c == onclick(images, button, inaxes, Stamp(now, usec))
         IN /\ images' = c.images
            /\ err' = c.err
            /\ result' = Flush(result, c.images)
    /\ UNCHANGED <<label_options, rows, columns, csv, image_paths, now,
                   session, hist>>

Onclick ==
    /\ session
    /\ \E button \in Buttons, inaxes \in EventAxes, usec \in Usecs :
         LET c == onclick(images, button, inaxes, Stamp(now, usec))
         IN /\ images' = c.images
            /\ err' = c.err
    /\ UNCHANGED <<label_options, rows, columns, csv, result, image_paths,
                   now, session, hist>>

Tick ==
    /\ now < StartTime + MaxTicks
    /\ now' = now + 1
    /\ UNCHANGED <<label_options, rows, columns, csv, result, image_paths,
                   images, err, session, hist>>

Next == Construct \/ LabellingGrid \/ Onclick \/ Tick

Spec == Init /\ [][Next]_vars

\* ------------------------------- construction, any arguments and any file
\* A constructor argument is the Python value it is called with: its type
\* and its value (the text of a label or colour, the number of a size).
PyStr(text) == [type |-> "str", val |-> text]
PyInt(n) == [type |-> "int", val |-> n]
PyFloat(n) == [type |-> "float", val |-> n]

LabelArgs ==
    {<<PyStr("A"), PyStr("B")>>, <<PyStr("A"), PyStr("A")>>, <<PyStr("A")>>,
     <<PyStr("A"), PyStr("B"), PyStr("C")>>, <<PyStr("A"), PyInt(7)>>}
ColorArgs ==
    {<<PyStr("red"), PyStr("blue")>>, <<PyStr("red")>>,
     <<PyStr("red"), PyInt(0)>>}
RowArgs == {PyInt(-1), PyInt(0), PyInt(1), PyFloat(1)}
ColumnArgs == {PyInt(-1), PyInt(2)}
FontsizeArgs == {PyInt(10), PyInt(0), PyFloat(10)}

ArgOptions ==
    [label_options : LabelArgs, color_options : ColorArgs, rows : RowArgs,
     columns : ColumnArgs, fontsize : FontsizeArgs]

\* len(v) == 2 and type(v[0]) == str and type(v[1]) == str
TwoStr(v) == Len(v) = 2 /\ v[1].type = "str" /\ v[2].type = "str"

\* the assertions at the head of __init__
CheckArguments(a) ==
    IF /\ TwoStr(a.label_options)
       /\ TwoStr(a.color_options)
       /\ a.rows.type = "int"
       /\ a.columns.type = "int"
       /\ a.fontsize.type = "int"
    THEN "none" ELSE "AssertionError"

\* what is left when __init__ raises e: no object, no attribute
NoSession(e) ==
    [session |-> FALSE, err |-> e, label_options |-> <<>>, rows |-> 0,
     columns |-> 0, result |-> <<>>, image_paths |-> <<>>, images |-> <<>>]

\* ClickLabel(label_options, color_options, rows, columns, fontsize) over
\* the file at result_path and the listing of data_folder
NewClickLabel(a, file, listing) ==
    IF CheckArguments(a) # "none" THEN NoSession(CheckArguments(a))
    ELSE IF result_table(file).err # "none" THEN NoSession(result_table(file).err)
    ELSE [session |-> TRUE, err |-> "none",
          label_options |-> <<a.label_options[1].val, a.label_options[2].val>>,
          rows |-> a.rows.val,
          columns |-> a.columns.val,
          result |-> ClickLabel(file, listing).result,
          image_paths |-> ClickLabel(file, listing).image_paths,
          images |-> ClickLabel(file, listing).images]

\* the files the constructor may find at result_path: none, an empty file,
\* files that lack a column, and files with the three columns
ThreeColumns == <<"filename", "label", "timestamp">>
OldStamp == Stamp(StartTime, 1)
FileOptions ==
    {NoFile,
     [exists |-> TRUE, header |-> <<>>, rows |-> <<>>],
     [exists |-> TRUE, header |-> <<"filename", "label">>,
      rows |-> <<[filename |-> 1, label |-> "A"]>>],
     [exists |-> TRUE, header |-> <<"filename", "timestamp">>,
      rows |-> <<[filename |-> 1, timestamp |-> OldStamp]>>],
     [exists |-> TRUE, header |-> <<"label", "timestamp">>,
      rows |-> <<[label |-> "A", timestamp |-> OldStamp]>>],
     [exists |-> TRUE, header |-> ThreeColumns, rows |-> <<>>],
     [exists |-> TRUE, header |-> ThreeColumns,
      rows |-> <<[filename |-> 1, label |-> "A", timestamp |-> OldStamp]>>],
     [exists |-> TRUE, header |-> ThreeColumns,
      rows |-> <<[filename |-> 1, label |-> "A", timestamp |-> OldStamp],
                 [filename |-> MaxImages, label |-> "None",
                  timestamp |-> OldStamp]>>]}

\* before the constructor is called there is a file, or none, and no object
InitLoad ==
    /\ csv \in FileOptions
    /\ session = FALSE
    /\ label_options = <<>>
    /\ rows = 0
    /\ columns = 0
    /\ result = <<>>
    /\ image_paths = <<>>
    /\ images = <<>>
    /\ err = "none"
    /\ now = StartTime
    /\ hist = [fresh |-> ~csv.exists, flushed |-> {},
               saved |-> <<result, csv, image_paths>>]

\* a call of the constructor
New ==
    /\ \E a \in ArgOptions, listing \in SUBSET Paths :
         LET c == NewClickLabel(a, csv, listing)
         IN /\ session' = c.session
            /\ err' = c.err
            /\ label_options' = c.label_options
            /\ rows' = c.rows
            /\ columns' = c.columns
            /\ result' = c.result
            /\ image_paths' = c.image_paths
            /\ images' = c.images
    /\ hist' = [fresh |-> ~csv.exists, flushed |-> {},
                saved |-> <<result', csv, image_paths'>>]
    /\ UNCHANGED <<csv, now>>

NextLoad == New

SpecLoad == InitLoad /\ [][NextLoad]_vars

\* ================================================================= claims
\* the current time as update documents it: "YYYY-MM-DD hh:mm:ss"
NowString(t) == <<t \div TenHours, t % TenHours>>

Recognized == DOMAIN click_map
Tiles == DOMAIN images
Laters == now..(StartTime + MaxTicks)

\* the tile k after a click of button on it at time t, microsecond usec
Clicked(imgs, k, button, t, usec) ==
    onclick(imgs, button, imgs[k].ax, Stamp(t, usec)).images[k]

\* C1, the labels: a recognized click on a tile labelled "None" gives it the
\* label bound to the button, and the same click again gives it "None" back.
C1_ToggleLabel ==
    \A k \in Tiles, b \in Recognized, u1 \in Usecs :
        images[k].label = "None" =>
            LET first == onclick(images, b, images[k].ax, Stamp(now, u1)).images
            IN /\ first[k].label = click_map[b]
               /\ \A t2 \in Laters, u2 \in Usecs :
                     Clicked(first, k, b, t2, u2).label = "None"

\* C1, the timestamp: that first click sets the tile's timestamp to the
\* current time.
C1_ToggleStamp ==
    \A k \in Tiles, b \in Recognized, u \in Usecs :
        images[k].label = "None" =>
            Clicked(images, k, b, now, u).timestamp = NowString(now)

\* C1 (Toggle): a primary or secondary click on a displayed tile labelled
\* "None" sets its label to the label bound to the button and its timestamp
\* to the current time; the same click again sets the label back to "None".
C1_Toggle == C1_ToggleLabel /\ C1_ToggleStamp

\* C2, the labels: a click of the other button on a labelled tile gives the
\* tile the other label, never "None".
C2_SwitchLabel ==
    \A k \in Tiles, b \in Recognized, o \in Recognized, u \in Usecs :
        (o # b /\ images[k].label = click_map[b]) =>
            /\ Clicked(images, k, o, now, u).label = click_map[o]
            /\ Clicked(images, k, o, now, u).label # "None"

\* C2, the timestamp: the switching click sets the timestamp to the current
\* time.
C2_SwitchStamp ==
    \A k \in Tiles, b \in Recognized, o \in Recognized, u \in Usecs :
        (o # b /\ images[k].label = click_map[b]) =>
            Clicked(images, k, o, now, u).timestamp = NowString(now)

\* C2 (Switch): a secondary click on a displayed tile bearing the primary
\* label sets its label to the secondary label, never to "None", and its
\* timestamp to the current time; symmetrically for a primary click on a tile
\* bearing the secondary label.
C2_Switch == C2_SwitchLabel /\ C2_SwitchStamp

\* ------------------------------------------------------------ page turns
PagePaths(imgs) == {imgs[i].path : i \in DOMAIN imgs}
PathsOf(imgs) == [k \in DOMAIN imgs |-> imgs[k].path]
UniqueKeys(table) == Cardinality(Keys(table)) = Len(table)

\* path has the same record, or none, in both tables
SameRecord(t1, t2, path) ==
    /\ (path \in Keys(t1)) = (path \in Keys(t2))
    /\ path \in Keys(t1) => Loc(t1, path) = Loc(t2, path)

\* the outcomes of labelling_grid() in the current state, one for each way
\* the microseconds of the clock fall while the new tiles are made
Turns ==
    {labelling_grid(rows, columns, result, csv, image_paths, images,
                    [k \in DOMAIN usecs |-> Stamp(now, usecs[k])]) :
        usecs \in [DOMAIN NextPage -> Usecs]}

\* C3 (Page-turn flush): when labelling_grid is called while a page is
\* displayed, the table's record for every tile's path becomes the tile's
\* (label, timestamp), replacing any earlier record of that path, and the
\* records of the paths that are not on the page are unchanged.
C3_PageTurnFlush ==
    images # <<>> =>
        \A g \in Turns :
            /\ UniqueKeys(g.result)
            /\ \A k \in Tiles :
                 /\ images[k].path \in Keys(g.result)
                 /\ Loc(g.result, images[k].path).label = images[k].label
                 /\ Loc(g.result, images[k].path).timestamp = images[k].timestamp
            /\ \A p \in Paths \ PagePaths(images) : SameRecord(result, g.result, p)

\* a page turn has happened, and a tile on display differs from the record
\* the next page turn will overwrite
C3_Witness ==
    /\ csv.exists
    /\ \E k \in Tiles :
         /\ images[k].path \in Keys(result)
         /\ Loc(result, images[k].path).label # images[k].label
    /\ \E p \in Keys(result) : p \notin PagePaths(images)

\* the records a file holds, as read_csv reads them, and their number
FileRecords(file) == Range(ReadCsv(file))
SameRecords(file, table) ==
    /\ FileRecords(file) = Range(table)
    /\ Len(file.rows) = Len(table)

\* C4 (Full overwrite persistence): right after every page turn the file
\* holds exactly the records of the table, and so in every state where a
\* file exists the file and the table hold the same records.
C4_FullOverwrite ==
    /\ csv.exists => SameRecords(csv, result)
    /\ images # <<>> =>
         \A g \in Turns : g.csv.exists /\ SameRecords(g.csv, g.result)

\* a later session has rewritten the file it loaded: the table is no longer
\* in the loader's order, and the file has the table's rows
C4_Witness ==
    /\ csv.exists
    /\ ~hist.fresh
    /\ result # SortValues(result)
    /\ ReadCsv(csv) = result

\* the session of 10 images under a 2 x 4 grid: its first grid, then one
\* page turn
Example10 == [i \in 1..10 |-> i]
ExampleStamps == [k \in 1..8 |-> Stamp(StartTime, 1)]
ExampleFirst ==
    labelling_grid(2, 4, <<>>, NoFile, Example10, <<>>, ExampleStamps)
ExampleTurn ==
    labelling_grid(2, 4, ExampleFirst.result, ExampleFirst.csv,
                   ExampleFirst.image_paths, ExampleFirst.images, ExampleStamps)

\* C5 (Rotation): a page turn with page size P = rows*columns replaces the
\* sequence s by s[P..] followed by s[..P], and the next page shows the first
\* min(P, len(s)) paths of the rotated sequence; with 10 images and P = 8 the
\* sequence becomes the remaining 2 images followed by the 8 just shown.
C5_Rotation ==
    /\ images # <<>> =>
         \A g \in Turns :
            /\ g.image_paths =
                 SubSeq(image_paths, num + 1, Len(image_paths))
                 \o SubSeq(image_paths, 1, Min(num, Len(image_paths)))
            /\ PathsOf(g.images) =
                 SubSeq(g.image_paths, 1, Min(num, Len(image_paths)))
    /\ ExampleTurn.image_paths = <<9, 10, 1, 2, 3, 4, 5, 6, 7, 8>>
    /\ PathsOf(ExampleTurn.images) = <<9, 10, 1, 2, 3, 4, 5, 6>>

\* a page turn has moved the page just shown behind the rest
C5_Witness ==
    /\ hist.fresh
    /\ csv.exists
    /\ Len(image_paths) > num
    /\ image_paths[1] > image_paths[Len(image_paths)]
    /\ images # <<>>

\* C6: in a session that found no result file, the keys of the table are
\* exactly the paths of the pages a page turn has flushed; with 10 images and
\* a 2 x 4 grid the table holds exactly 8 records after the first page turn.
C6_KeysAreFlushed ==
    /\ hist.fresh => Keys(result) = hist.flushed
    /\ Len(ExampleTurn.result) = 8
    /\ Keys(ExampleTurn.result) = 1..8

\* a page has been flushed and the page on display has a path never flushed
C6_Witness ==
    /\ hist.fresh
    /\ hist.flushed # {}
    /\ \E k \in Tiles : images[k].path \notin Keys(result)

\* C7: a click changes neither the table, nor the file, nor the sequence:
\* they are what construction or the last labelling_grid left.
C7_ClicksLeaveTable == <<result, csv, image_paths>> = hist.saved

\* a click has labelled a tile, and the table does not have that label
C7_Witness ==
    \E k \in Tiles :
        /\ images[k].label # "None"
        /\ images[k].path \in Keys(result)
        /\ Loc(result, images[k].path).label # images[k].label

\* the axes of the tiles on display
TileAxes == {images[k].ax : k \in Tiles}

\* C8 (No-op clicks): a click of an unmapped button, or a click that is over
\* no tile of the current page, changes no tile and raises nothing; a
\* recognized click over one tile changes no other tile.
C8_NoOpClicks ==
    \A b \in Buttons, a \in EventAxes, u \in Usecs :
        LET c == onclick(images, b, a, Stamp(now, u))
        IN /\ (b \notin Recognized \/ a \notin TileAxes) =>
                (c.images = images /\ c.err = "none")
           /\ \A k \in Tiles : images[k].ax # a => c.images[k] = images[k]

\* two tiles on display with distinct axes, one clicked and one not
C8_Witness ==
    /\ Len(images) >= 2
    /\ Cardinality(TileAxes) = Len(images)
    /\ images[1].label # "None"
    /\ images[2].label = "None"
    /\ StaleAxes \notin TileAxes

\* ------------------------------------------------------------ construction
TableKeys(table) == [i \in DOMAIN table |-> table[i].filename]

\* the keys of table that are entries of listing, in table order
KeysIn(table, listing) ==
    LET InListing(p) == p \in listing
    IN SelectSeq(TableKeys(table), InListing)

\* C9, what the code does: the never-labelled entries sorted, then every key
\* of the table.
C9_SortedThenKeys ==
    \A listing \in SUBSET Paths :
        LET s == ClickLabel(csv, listing).image_paths
            t == ClickLabel(csv, listing).result
        IN s = NpSort(listing \ Keys(t)) \o TableKeys(t)

\* C9 (Enumeration order): at construction the sequence is the directory
\* entries that are not keys of the table, sorted, followed by the directory
\* entries that are keys of the table, in table order; it contains every
\* directory entry exactly once and no path that is not a directory entry.
C9_EnumerationOrder ==
    \A listing \in SUBSET Paths :
        LET s == ClickLabel(csv, listing).image_paths
            t == ClickLabel(csv, listing).result
        IN /\ s = NpSort(listing \ Keys(t)) \o KeysIn(t, listing)
           /\ Range(s) = listing
           /\ Len(s) = Cardinality(listing)

\* the persisted label of a path, "" when the file has no record of it
Persisted(path) ==
    IF \E i \in DOMAIN csv.rows : csv.rows[i].filename = path
    THEN csv.rows[CHOOSE i \in DOMAIN csv.rows : csv.rows[i].filename = path]
    ELSE [filename |-> path, label |-> "", timestamp |-> TsNone]

IsLabelled(path) == Persisted(path).label \in Range(label_options)
IsUnlabelled(path) == Persisted(path).label \in {"", "None"}
DoneRank(path) == IF Persisted(path).label = "None" THEN 0 ELSE 1

\* C10 (Unlabeled first across sessions): at the start of every session no
\* image whose persisted label is one of the two configured labels precedes
\* an image with no record or with the persisted label "None"; the recorded
\* images are in ascending order of (label # "None", timestamp).
C10_UnlabeledFirst ==
    \A listing \in SUBSET Paths :
        LET s == ClickLabel(csv, listing).image_paths
        IN \A i \in DOMAIN s, j \in DOMAIN s :
              i < j =>
                /\ ~(IsLabelled(s[i]) /\ IsUnlabelled(s[j]))
                /\ (Persisted(s[i]).label # "" /\ Persisted(s[j]).label # "") =>
                     \/ DoneRank(s[i]) < DoneRank(s[j])
                     \/ /\ DoneRank(s[i]) = DoneRank(s[j])
                        /\ ~TsLess(Persisted(s[j]).timestamp,
                                   Persisted(s[i]).timestamp)

\* a session has just been constructed over a file in which the labelled
\* record is the older one: the unlabelled image still comes first
C10_Witness ==
    /\ ~hist.fresh
    /\ images = <<>>
    /\ Len(image_paths) = 2
    /\ Persisted(image_paths[1]).label = "None"
    /\ IsLabelled(image_paths[2])
    /\ TsLess(Persisted(image_paths[2]).timestamp,
              Persisted(image_paths[1]).timestamp)

\* ------------------------------------------------- constructor arguments
Positive(v) == v.type = "int" /\ v.val > 0

\* the configurations the interface admits: exactly 2 label strings, exactly
\* 2 colour strings, and rows, columns and fontsize positive integers
ValidConfiguration(a) ==
    /\ TwoStr(a.label_options)
    /\ TwoStr(a.color_options)
    /\ Positive(a.rows)
    /\ Positive(a.columns)
    /\ Positive(a.fontsize)

\* C11 (Construction validation): over a result file that loads, or none,
\* construction succeeds if and only if exactly 2 label strings and exactly
\* 2 colour strings are given and rows, columns and fontsize are each a
\* positive integer; any other configuration fails with an error and yields
\* no session.
C11_ConstructionValidation ==
    result_table(csv).err = "none" =>
        \A a \in ArgOptions, listing \in SUBSET Paths :
            LET c == NewClickLabel(a, csv, listing)
            IN /\ c.session <=> ValidConfiguration(a)
               /\ ~ValidConfiguration(a) => (c.err # "none" /\ ~c.session)

\* ------------------------------------------------------- the result file
\* a file that lacks one of the three columns, or has no table in it at all
Malformed(file) ==
    /\ file.exists
    /\ \E c \in Range(ThreeColumns) : c \notin Range(file.header)

\* C12 (Malformed result file): if the file at the result path lacks any of
\* the columns filename, label or timestamp, or holds no table, construction
\* raises ValueError, returns no table and creates no session; if there is no
\* file, construction proceeds with an empty result table.
C12_MalformedFile ==
    /\ Malformed(csv) =>
         /\ result_table(csv) = [err |-> "ValueError", table |-> <<>>]
         /\ ~session /\ result = <<>> /\ image_paths = <<>>
    /\ \A a \in ArgOptions, listing \in SUBSET Paths :
         CheckArguments(a) = "none" =>
            LET c == NewClickLabel(a, csv, listing)
            IN /\ Malformed(csv) =>
                    (c.err = "ValueError" /\ ~c.session /\ c.result = <<>>)
               /\ ~csv.exists =>
                    (c.err = "none" /\ c.session /\ c.result = <<>>)

\* the constructor has raised ValueError over a file that has rows but lacks
\* a column
C12_Witness ==
    /\ Malformed(csv)
    /\ csv.rows # <<>>
    /\ err = "ValueError"
    /\ ~session

\* ------------------------------------------------------------- round trip
\* the clock reading every tile of a page gets, microsecond u
PageStamps(u) == [k \in Paths |-> Stamp(now, u)]

\* a session constructed over file and listing, and its first grid
FirstGrid(file, listing, u) ==
    LET c == ClickLabel(file, listing)
    IN labelling_grid(rows, columns, c.result, file, c.image_paths, c.images,
                      PageStamps(u))

\* the page turn that follows with no click in between
TurnUnclicked(file, listing, u) ==
    LET g == FirstGrid(file, listing, u)
    IN labelling_grid(rows, columns, g.result, g.csv, g.image_paths, g.images,
                      PageStamps(u))

\* C13 (Round trip): a later session loads the file this program saved and
\* turns its first page with no click; if every tile of that page had a
\* record, the file then holds the same (filename, label, timestamp) records
\* as before, in the order by (done, timestamp).
C13_RoundTrip ==
    csv.exists =>
        \A listing \in SUBSET Paths, u \in Usecs :
            LET c == ClickLabel(csv, listing)
                g == FirstGrid(csv, listing, u)
                t == TurnUnclicked(csv, listing, u)
            IN (g.images # <<>> /\ PagePaths(g.images) \subseteq Keys(c.result)) =>
                  /\ t.csv.exists
                  /\ Range(t.csv.rows) = Range(csv.rows)
                  /\ Len(t.csv.rows) = Len(csv.rows)
                  /\ ReadCsv(t.csv) = SortValues(ReadCsv(csv))

\* a later session has turned a page and nothing has changed: the table is
\* as loaded, the file has its rows, and the sequence has been rotated
C13_Witness ==
    /\ ~hist.fresh
    /\ csv.exists
    /\ Len(result) >= 2
    /\ result = SortValues(result)
    /\ ReadCsv(csv) = result
    /\ \E i \in DOMAIN result : result[i].label = "None"
    /\ \E i \in DOMAIN result : result[i].label # "None"
    /\ images # <<>>
    /\ \A k \in Tiles :
         /\ images[k].path \in Keys(result)
         /\ Loc(result, images[k].path).label = images[k].label
         /\ Loc(result, images[k].path).timestamp = images[k].timestamp
    /\ image_paths # get_image_paths(Range(image_paths), result)

\* --------------------------------------------------------------- the page
\* C14, a path with a record: the tile starts with the label and timestamp
\* of the record.
C14_FromRecord ==
    \A g \in Turns :
        \A k \in DOMAIN g.images :
            g.images[k].path \in Keys(g.result) =>
                /\ g.images[k].label = Loc(g.result, g.images[k].path).label
                /\ g.images[k].timestamp =
                       Loc(g.result, g.images[k].path).timestamp

\* C14, a path with no record: the tile starts with the label "None" and the
\* current time.
C14_Default ==
    \A g \in Turns :
        \A k \in DOMAIN g.images :
            g.images[k].path \notin Keys(g.result) =>
                /\ g.images[k].label = "None"
                /\ g.images[k].timestamp = NowString(now)

\* C14 (Tile initialisation): every tile created when a page is rendered
\* starts with exactly the label and timestamp of the result table's record
\* for its path when there is one, and otherwise with label "None" and the
\* current time as timestamp.
C14_TileInitialisation == C14_FromRecord /\ C14_Default

\* the page of the outcome g of labelling_grid is as C15 says
PageAsClaimed(g) ==
    LET n == Min(num, Len(g.image_paths))
    IN /\ g.err = "none"
       /\ Len(g.images) = n
       /\ PathsOf(g.images) = SubSeq(g.image_paths, 1, n)
       /\ Cardinality(PagePaths(g.images)) = Len(g.images)
       /\ PagePaths(g.images) \subseteq
            Keys(WriteBack(num, g.result, g.csv, g.image_paths, g.images).result)

\* C15 for a grid with rows and columns: the claim in the sessions whose
\* rows and columns are positive.
C15_PositiveGrid ==
    (rows > 0 /\ columns > 0) => \A g \in Turns : PageAsClaimed(g)

\* C15 (Page size): every rendered page has exactly min(rows*columns, N)
\* tiles, N the length of the session sequence; they are the first
\* min(rows*columns, N) paths of the sequence in order, one tile per path and
\* no path twice; a partial page is rendered without error, and a later page
\* turn flushes it like a full page.
C15_PageSize == \A g \in Turns : PageAsClaimed(g)

\* C16 (First render has no write-back): a labelling_grid call with no page
\* on display, as the first of a session is, leaves the table, the file and
\* the sequence as they are and only builds the page from the front of the
\* sequence; so a session that found no file has no file and an empty table
\* until it has flushed a page with at least one tile.
C16_FirstRender ==
    /\ images = <<>> =>
         \A g \in Turns :
            /\ g.result = result
            /\ g.csv = csv
            /\ g.image_paths = image_paths
            /\ g.err = "none" => PathsOf(g.images) = SliceTo(image_paths, num)
    /\ (hist.fresh /\ hist.flushed = {}) => (~csv.exists /\ result = <<>>)

\* the first page of a first session is on display and has been clicked:
\* nothing has been written yet
C16_Witness ==
    /\ hist.fresh
    /\ hist.flushed = {}
    /\ ~csv.exists
    /\ Len(images) = Min(num, Len(image_paths))
    /\ \E k \in Tiles : images[k].label # "None"
    /\ image_paths = NpSort(Range(image_paths))

\* ----------------------------------------------------------- the sequence
DuplicateFree(s) == Cardinality(Range(s)) = Len(s)

\* C17 (Sequence invariant): the session sequence never holds a path twice,
\* and every step except the construction of a new session leaves its length
\* and its set of paths as they are: it is a permutation of the sequence
\* built at construction.
C17_SequencePermutation ==
    /\ []DuplicateFree(image_paths)
    /\ [][\/ /\ Len(image_paths') = Len(image_paths)
             /\ Range(image_paths') = Range(image_paths)
          \/ Construct]_vars

\* page turns have rotated the sequence of a first session away from the
\* sorted order it was built in
C17_Witness ==
    /\ hist.fresh
    /\ hist.flushed # {}
    /\ image_paths # NpSort(Range(image_paths))
    /\ DuplicateFree(image_paths)

\* --------------------------------------------------------------- coverage
\* the outcome of the k-th labelling_grid call from the current state on,
\* with no other call in between (clicks do not touch the sequence)
RECURSIVE GridAfter(_, _)
GridAfter(k, u) ==
    IF k = 1
    THEN labelling_grid(rows, columns, result, csv, image_paths, images,
                        PageStamps(u))
    ELSE LET g == GridAfter(k - 1, u)
         IN labelling_grid(rows, columns, g.result, g.csv, g.image_paths,
                           g.images, PageStamps(u))

\* the paths on the k-th page, and on the first k pages
PageAt(k, u) == PagePaths(GridAfter(k, u).images)
ShownWithin(k, u) == UNION {PageAt(j, u) : j \in 1..k}

\* the number of pages of size p that n images fill
PagesToShow(n, p) == (n + p - 1) \div p

\* in a session that has shown no page yet, the first ceil(N/P) pages show
\* every image, and none twice unless the page completes the first pass
CoveredInOnePass ==
    images = <<>> =>
        \A u \in Usecs :
            LET all == Range(image_paths)
                last == PagesToShow(Len(image_paths), num)
            IN /\ ShownWithin(last, u) = all
               /\ \A k \in 1..last :
                     PageAt(k, u) \cap ShownWithin(k - 1, u) # {} =>
                         ShownWithin(k, u) = all

\* C18 for a grid with rows and columns: the claim in the sessions whose
\* rows and columns are positive.
C18_PositiveGrid ==
    (rows > 0 /\ columns > 0 /\ Len(image_paths) >= 1) => CoveredInOnePass

\* C18 (Coverage): with rows*columns = P >= 1 and N >= 1 images, turning
\* pages displays every image of the session sequence within the first
\* ceil(N/P) rendered pages, and no image is displayed a second time before
\* every image has been displayed once, except on the page that completes
\* the first pass.
C18_Coverage ==
    (num >= 1 /\ Len(image_paths) >= 1) => CoveredInOnePass

\* ------------------------------------------------------------ label domain
LabelDomain == Range(label_options) \cup {"None"}

\* the well-formed time strings of the clock's readings
ActualTimes == {NowString(t) : t \in StartTime..(StartTime + MaxTicks)}

\* C19, the labels: every tile's label, every label in the table and every
\* label in the file is one of the two configured labels or "None".
C19_Labels ==
    /\ \A k \in Tiles : images[k].label \in LabelDomain
    /\ \A i \in DOMAIN result : result[i].label \in LabelDomain
    /\ \A i \in DOMAIN csv.rows : csv.rows[i].label \in LabelDomain

\* C19, the sentinel: no timestamp in the table is the "None" sentinel.
C19_NeverSentinel ==
    \A i \in DOMAIN result : result[i].timestamp # TsNone

\* C19, the timestamps: every timestamp in the table is an actual time.
C19_ActualTimes ==
    \A i \in DOMAIN result : result[i].timestamp \in ActualTimes

\* C19 (Label domain): in a session started with no result file, or with a
\* file whose labels are all configured labels or "None", after any clicks
\* and page turns every tile's label and every label in the table and in the
\* file is one of the two configured labels or "None", and every timestamp
\* written to the table is an actual time, never the "None" sentinel.
C19_LabelDomain == C19_Labels /\ C19_NeverSentinel /\ C19_ActualTimes

=============================================================================
